---- MODULE Spec2Model ----
(***************************************************************************)
(* A model of the ClipVibe AI pipeline: the clip analyzer                  *)
(* (services/analyzer.py), the probe helpers (utils/ffmpeg.py) and the     *)
(* error mapping of the /analyze endpoint (api.py).                        *)
(*                                                                         *)
(* Numbers.  Python floats are modelled by exact rationals <<num, den>>    *)
(* with den > 0; values that the code rounds to d decimals are kept as     *)
(* integers in units of 10^-d.  round() is round-half-to-even, as in       *)
(* Python 3.  Strings that the code parses are tuples of one-character     *)
(* strings, so that split(), int() and float() are computed, not assumed.  *)
(***************************************************************************)
EXTENDS Integers, Sequences, FiniteSets, TLC

(***************************************************************************)
(* Program constants.                                                      *)
(***************************************************************************)
MAX_SAMPLE_FRAMES == 20
KMEANS_CLUSTERS == 5
SEQ_STRIDE == 30
TEMP_MIN_K == 2500
TEMP_MAX_K == 10000
TEMP_NEUTRAL_K == 5500
TEMP_ANCHOR_LOW_K == 3000
TEMP_ANCHOR_HIGH_K == 8000
\* TEMP_RATIO_LOW = 0.8 and TEMP_RATIO_HIGH = 1.2, as rationals
TEMP_RATIO_LOW == <<4, 5>>
TEMP_RATIO_HIGH == <<6, 5>>

(***************************************************************************)
(* Bounds of the model.                                                    *)
(***************************************************************************)
\* the reported frame count (CAP_PROP_FRAME_COUNT) ranges over -1..MaxT
MaxT == 41
\* the stream ends at frame 0 or at frame SEQ_STRIDE*k + 1, k in 0..MaxEofK
MaxEofK == 20
\* one corrupt frame index in 0..MaxBad, or none (-1)
MaxBad == 1
\* _estimate_color_temperature is run on batches of 0..MaxTempFrames frames
MaxTempFrames == 3
\* _extract_dominant_colors is run on label counts in 0..MaxCount per cluster
MaxCount == 2
\* _parse_frame_rate is run on every string of at most MaxRateLen characters
MaxRateLen == 4

(***************************************************************************)
(* Arithmetic helpers.                                                     *)
(***************************************************************************)
Min(a, b) == IF a <= b THEN a ELSE b
Max(a, b) == IF a >= b THEN a ELSE b
Abs(a) == IF a < 0 THEN -a ELSE a

RECURSIVE GCD(_, _)
GCD(a, b) == IF b = 0 THEN a ELSE GCD(b, a % b)

\* a rational in lowest terms with a positive denominator
Rat(n, d) ==
    LET s == IF d < 0 THEN -1 ELSE 1
        g == GCD(Abs(n), Abs(d))
    IN  <<(s * n) \div g, (s * d) \div g>>
RatAdd(x, y) == Rat(x[1] * y[2] + y[1] * x[2], x[2] * y[2])
RatSub(x, y) == Rat(x[1] * y[2] - y[1] * x[2], x[2] * y[2])
RatMul(x, y) == Rat(x[1] * y[1], x[2] * y[2])
RatDiv(x, y) == Rat(x[1] * y[2], x[2] * y[1])
RatLess(x, y) == x[1] * y[2] < y[1] * x[2]
RatMin(x, y) == IF RatLess(y, x) THEN y ELSE x
RatMax(x, y) == IF RatLess(x, y) THEN y ELSE x

\* Python's round(): the integer nearest to n/d (d > 0), ties to the even one
PyRound(n, d) ==
    LET q == n \div d
        r == n % d
    IN  IF 2 * r < d THEN q
        ELSE IF 2 * r > d THEN q + 1
        ELSE IF q % 2 = 0 THEN q ELSE q + 1

(***************************************************************************)
(* Frames.  A decoded frame is modelled by the frame index it was read     *)
(* from and the per-channel means of its pixels in OpenCV's B, G, R order  *)
(* (a solid-colour frame: every pixel equals the mean).                    *)
(***************************************************************************)
Frame(i, c) == [idx |-> i, bgr |-> c]

\* cv2.cvtColor(f, COLOR_BGR2GRAY) of a solid frame: the 14-bit fixed-point luma
cvtColorGray(f) ==
    (f.bgr[1] * 1868 + f.bgr[2] * 9617 + f.bgr[3] * 4899 + 8192) \div 16384

GrayFrames(frames) == [i \in 1..Len(frames) |-> cvtColorGray(frames[i])]

RECURSIVE SumSeq(_)
SumSeq(s) == IF s = <<>> THEN 0 ELSE Head(s) + SumSeq(Tail(s))

\* round(mean(mean(f) / 255), 4), in units of 10^-4
_compute_brightness(gray_frames) ==
    PyRound(SumSeq(gray_frames) * 10000, 255 * Len(gray_frames))

\* round(mean(std(f) / 255), 4), in units of 10^-4; a solid frame has std 0
_compute_contrast(gray_frames) ==
    PyRound(SumSeq([i \in 1..Len(gray_frames) |-> 0]) * 10000, 255 * Len(gray_frames))

(***************************************************************************)
(* _estimate_color_temperature                                             *)
(***************************************************************************)
\* the blue/red ratios of the frames whose mean red is positive
RECURSIVE TempRatios(_)
TempRatios(frames) ==
    IF frames = <<>> THEN <<>>
    ELSE LET blue == Head(frames).bgr[1]
             red == Head(frames).bgr[3]
         IN  IF red > 0
             THEN <<Rat(blue, red)>> \o TempRatios(Tail(frames))
             ELSE TempRatios(Tail(frames))

\* the sum of a sequence of rationals (each partial sum is computed once)
RECURSIVE RatSum(_)
RatSum(s) ==
    IF s = <<>> THEN <<0, 1>>
    ELSE CHOOSE r \in {RatAdd(Head(s), v) : v \in {RatSum(Tail(s))}} : TRUE

\* the interpolated Kelvin value before clamping, a rational
TempKelvin(avg_ratio) ==
    LET t == RatDiv(RatSub(avg_ratio, TEMP_RATIO_LOW),
                    RatSub(TEMP_RATIO_HIGH, TEMP_RATIO_LOW))
    IN  RatAdd(<<TEMP_ANCHOR_LOW_K, 1>>,
               RatMul(t, <<TEMP_ANCHOR_HIGH_K - TEMP_ANCHOR_LOW_K, 1>>))

\* a fault: the upper clamp is missing
TempClampLowOnly(kelvin) == RatMax(<<TEMP_MIN_K, 1>>, kelvin)

\* line 131: max(TEMP_MIN_K, min(TEMP_MAX_K, kelvin))
TempClamp(kelvin) == RatMax(<<TEMP_MIN_K, 1>>, RatMin(<<TEMP_MAX_K, 1>>, kelvin))

_estimate_color_temperature(frames) ==
    LET ratios == TempRatios(frames)
    IN  IF ratios = <<>> THEN TEMP_NEUTRAL_K
        ELSE LET avg_ratio == RatDiv(RatSum(ratios), <<Len(ratios), 1>>)
                 kelvin == TempClamp(TempKelvin(avg_ratio))
             IN  PyRound(kelvin[1], kelvin[2])

(***************************************************************************)
(* _extract_dominant_colors                                                *)
(***************************************************************************)
Clusters == 0..(KMEANS_CLUSTERS - 1)

HexDigits == <<"0", "1", "2", "3", "4", "5", "6", "7",
               "8", "9", "A", "B", "C", "D", "E", "F">>

\* f"{v:02X}" for v in 0..255
Hex02X(v) == HexDigits[(v \div 16) + 1] \o HexDigits[(v % 16) + 1]

\* centers[idx].astype(int): truncation toward zero of a value in tenths
AsTypeInt(tenths) == IF tenths >= 0 THEN tenths \div 10 ELSE -((-tenths) \div 10)

NpClip(v, lo, hi) == Max(lo, Min(hi, v))

\* the "#RRGGBB" string of one cluster center (R, G, B in tenths)
HexColor(center) ==
    "#" \o Hex02X(NpClip(AsTypeInt(center[1]), 0, 255))
        \o Hex02X(NpClip(AsTypeInt(center[2]), 0, 255))
        \o Hex02X(NpClip(AsTypeInt(center[3]), 0, 255))

\* the orders of 0..n-1 (as functions 0..n-1 -> 0..n-1) that are permutations
IndexOrders(n) ==
    {p \in [0..(n - 1) -> 0..(n - 1)] :
        \A i, j \in 0..(n - 1) : i # j => p[i] # p[j]}

\* np.argsort(keys) with the default kind ("quicksort", documented as not
\* stable): any permutation that puts the keys in ascending order.  The
\* order of equal keys depends on the numpy build (insertion sort, or a SIMD
\* sorting network), so every such order is a possible result.
NpArgsort(keys) ==
    {p \in IndexOrders(KMEANS_CLUSTERS) :
        \A i, j \in Clusters : i < j => keys[p[i]] <= keys[p[j]]}

\* the results of lines 95-105 for a k-means outcome (label counts, centers)
_extract_dominant_colors(label_counts, centers) ==
    {[sorted_indices |-> p,
      hex_colors |-> [i \in 1..KMEANS_CLUSTERS |-> HexColor(centers[p[i - 1]])]] :
        p \in NpArgsort([c \in Clusters |-> -label_counts[c]])}

(***************************************************************************)
(* _sample_frames: the indices of the even-spacing strategy.               *)
(***************************************************************************)
SampleStep(total_frames) == Max(1, total_frames \div MAX_SAMPLE_FRAMES)

\* list(range(0, total_frames, step)), for total_frames > 0
RangeList(total_frames, step) ==
    [k \in 1..((total_frames + step - 1) \div step) |-> (k - 1) * step]

\* s[:n]
Prefix(s, n) == SubSeq(s, 1, Min(n, Len(s)))

\* a fault: the [:MAX_SAMPLE_FRAMES] cap on the index list is missing
FrameIndicesUncapped(total_frames) ==
    RangeList(total_frames, SampleStep(total_frames))

\* line 50: list(range(0, total_frames, step))[:MAX_SAMPLE_FRAMES]
FrameIndices(total_frames) ==
    Prefix(RangeList(total_frames, SampleStep(total_frames)), MAX_SAMPLE_FRAMES)

(***************************************************************************)
(* The state.                                                              *)
(***************************************************************************)
VARIABLES
    \* ---- analyze_clip and the /analyze endpoint ----
    file,              \* the file at file_path: kind, and what its video holds
    clip_id,           \* the clip_id argument, then the local
    pc,                \* the position of the call
    cap,               \* the video handle: "none", "failed", "open", "released"
    frames,            \* the frames local of _sample_frames / analyze_clip
    idx,               \* the sequential strategy's idx
    frame_indices,     \* the even strategy's frame_indices
    pos,               \* the position of the for loop in frame_indices
    pending,           \* an exception in flight through the finally block
    locals,            \* the statistics computed so far
    result,            \* the returned record (empty until the call returns)
    error,             \* the exception the call raised: type and message
    events,            \* history: the handle and statistic events, in order
    attempts,          \* history: the frame indices seeked to, in order
    status_code,       \* the HTTP status of /analyze (0 until it responds)
    \* ---- _estimate_color_temperature ----
    t_frames, t_out,
    \* ---- _extract_dominant_colors ----
    label_counts, centers, c_out,
    \* ---- _extract_duration ----
    video_stream, fmt, d_out,
    \* ---- _parse_frame_rate ----
    r_stream, r_out

anVars == <<file, clip_id, pc, cap, frames, idx, frame_indices, pos, pending,
            locals, result, error, events, attempts, status_code>>
tempVars == <<t_frames, t_out>>
colVars == <<label_counts, centers, c_out>>
durVars == <<video_stream, fmt, d_out>>
rateVars == <<r_stream, r_out>>
vars == <<anVars, tempVars, colVars, durVars, rateVars>>

NoError == [type |-> "none", msg |-> "none"]
NoResult == <<>>

\* the state of a function that is not running in the specification at hand
AnIdle ==
    /\ file = [kind |-> "missing", total |-> 0, eof |-> 0, bad |-> -1,
               color |-> <<0, 0, 0>>]
    /\ clip_id = ""
    /\ pc = "idle"
    /\ cap = "none"
    /\ frames = <<>>
    /\ idx = 0
    /\ frame_indices = <<>>
    /\ pos = 1
    /\ pending = "none"
    /\ locals = <<>>
    /\ result = NoResult
    /\ error = NoError
    /\ events = <<>>
    /\ attempts = <<>>
    /\ status_code = 0
TempIdle == t_frames = <<>> /\ t_out = [done |-> FALSE, value |-> 0]
ColIdle ==
    /\ label_counts = [c \in Clusters |-> 0]
    /\ centers = [c \in Clusters |-> <<0, 0, 0>>]
    /\ c_out = [done |-> FALSE, sorted_indices |-> <<>>, hex_colors |-> <<>>]
DurIdle ==
    /\ video_stream = [duration |-> <<>>, tags |-> <<>>]
    /\ fmt = [duration |-> <<>>]
    /\ d_out = [done |-> FALSE, raised |-> "none", value |-> 0]
RateIdle ==
    /\ r_stream = [r_frame_rate |-> <<>>]
    /\ r_out = [done |-> FALSE, raised |-> "none", value |-> 0]

(***************************************************************************)
(* The files analyze_clip is called on.                                    *)
(***************************************************************************)
\* the B, G, R channel means of the videos' (solid) frames in 0..255
Colors == {<<0, 0, 0>>, <<120, 110, 100>>}

EofSet == {0} \cup {SEQ_STRIDE * k + 1 : k \in 0..MaxEofK}

\* a video: the frame count its header reports (<= 0: unknown), the index
\* its stream ends at, one corrupt frame index (-1: none), and its colour.
\* A stream with a known frame count ends at most SEQ_STRIDE frames after it.
Videos ==
    {v \in [kind : {"video"}, total : (-1)..MaxT, eof : EofSet,
            bad : (-1)..MaxBad, color : Colors] :
        v.total > 0 => v.eof <= v.total + SEQ_STRIDE}

Files ==
    {[kind |-> k, total |-> 0, eof |-> 0, bad |-> -1, color |-> <<0, 0, 0>>] :
        k \in {"missing", "unopenable"}} \cup Videos

\* cap.read() after cap.set(CAP_PROP_POS_FRAMES, i) returns ok
Decodable(f, i) == i >= 0 /\ i < f.eof /\ i # f.bad

\* the statistics, in the order analyze_clip computes them
StatEvents == <<"gray", "brightness", "contrast", "dominant_colors",
                "color_temperature">>
StatPcs == {StatEvents[i] : i \in 1..Len(StatEvents)}

\* the k-means outcomes (label counts, centers in tenths, R, G, B) that the
\* analyzer's palette step is run on
PaletteCenters ==
    [c \in Clusters |-> <<1004 + c, 1109 - c, 2551 + c>>]
PaletteCounts ==
    {[c \in Clusters |-> c + 1], [c \in Clusters |-> IF c = 3 THEN 2 ELSE c]}

(***************************************************************************)
(* analyze_clip, one action per step of the call.                          *)
(***************************************************************************)
\* the other functions' variables, which analyze_clip leaves alone
AnOnly == UNCHANGED <<tempVars, colVars, durVars, rateVars>>

Raise(type, msg) ==
    /\ pc' = "raised"
    /\ error' = [type |-> type, msg |-> msg]

\* a fault: the existence check is missing, the path goes straight to OpenCV
EnterUnchecked ==
    /\ pc = "start"
    /\ clip_id' = IF clip_id = "" THEN "uuid4" ELSE clip_id
    /\ pc' = "open"
    /\ UNCHANGED <<file, cap, frames, idx, frame_indices, pos, pending, locals,
                   result, error, events, attempts, status_code>>
    /\ AnOnly

\* lines 152-157: the clip id, then the existence check
Enter ==
    /\ pc = "start"
    /\ clip_id' = IF clip_id = "" THEN "uuid4" ELSE clip_id
    /\ IF file.kind = "missing"
       THEN Raise("FileNotFoundError", "Video file not found")
       ELSE pc' = "open" /\ error' = error
    /\ UNCHANGED <<file, cap, frames, idx, frame_indices, pos, pending, locals,
                   result, events, attempts, status_code>>
    /\ AnOnly

\* lines 161-163: cv2.VideoCapture(path), then the isOpened check
Open ==
    /\ pc = "open"
    /\ events' = Append(events, "VideoCapture")
    /\ IF file.kind = "video"
       THEN cap' = "open" /\ pc' = "sample" /\ error' = error
       ELSE cap' = "failed" /\ Raise("ValueError", "Failed to open video")
    /\ UNCHANGED <<file, clip_id, frames, idx, frame_indices, pos, pending,
                   locals, result, attempts, status_code>>
    /\ AnOnly

\* lines 34-39 and 49-52: the frame count picks the strategy
SampleBegin ==
    /\ pc = "sample"
    /\ LET total_frames == file.total
       IN  IF total_frames <= 0
           THEN pc' = "seq" /\ idx' = 0 /\ frame_indices' = frame_indices
           ELSE /\ pc' = "even"
                /\ frame_indices' = FrameIndices(total_frames)
                /\ idx' = idx
    /\ frames' = <<>>
    /\ pos' = 1
    /\ UNCHANGED <<file, clip_id, cap, pending, locals, result, error, events,
                   attempts, status_code>>
    /\ AnOnly

\* a fault: the while loop does not test len(frames) < MAX_SAMPLE_FRAMES
SeqStepUncapped ==
    /\ pc = "seq"
    /\ attempts' = Append(attempts, idx)
    /\ events' = Append(events, "read")
    /\ IF ~Decodable(file, idx)
       THEN pc' = "finally" /\ frames' = frames /\ idx' = idx
       ELSE /\ frames' = Append(frames, Frame(idx, file.color))
            /\ idx' = idx + SEQ_STRIDE
            /\ pc' = pc
    /\ UNCHANGED <<file, clip_id, cap, frame_indices, pos, pending, locals,
                   result, error, status_code>>
    /\ AnOnly

\* lines 40-47: one turn of the while loop, or its exit and the return
SeqStep ==
    /\ pc = "seq"
    /\ IF Len(frames) < MAX_SAMPLE_FRAMES
       THEN /\ attempts' = Append(attempts, idx)
            /\ events' = Append(events, "read")
            /\ IF ~Decodable(file, idx)
               THEN pc' = "finally" /\ frames' = frames /\ idx' = idx
               ELSE /\ frames' = Append(frames, Frame(idx, file.color))
                    /\ idx' = idx + SEQ_STRIDE
                    /\ pc' = pc
       ELSE /\ pc' = "finally"
            /\ UNCHANGED <<frames, idx, attempts, events>>
    /\ UNCHANGED <<file, clip_id, cap, frame_indices, pos, pending, locals,
                   result, error, status_code>>
    /\ AnOnly

\* lines 53-61: one turn of the for loop, or its end and the return
EvenStep ==
    /\ pc = "even"
    /\ IF pos <= Len(frame_indices)
       THEN /\ attempts' = Append(attempts, frame_indices[pos])
            /\ events' = Append(events, "read")
            /\ frames' = IF ~Decodable(file, frame_indices[pos])
                         THEN frames
                         ELSE Append(frames, Frame(frame_indices[pos], file.color))
            /\ pos' = pos + 1
            /\ pc' = pc
       ELSE /\ pc' = "finally"
            /\ UNCHANGED <<frames, pos, attempts, events>>
    /\ UNCHANGED <<file, clip_id, cap, idx, frame_indices, pending, locals,
                   result, error, status_code>>
    /\ AnOnly

\* an exception out of cap.get, cap.set or cap.read during _sample_frames
SampleRaise ==
    /\ pc \in {"sample", "seq", "even"}
    /\ pending' = "cv2.error"
    /\ pc' = "finally"
    /\ UNCHANGED <<file, clip_id, cap, frames, idx, frame_indices, pos, locals,
                   result, error, events, attempts, status_code>>
    /\ AnOnly

\* a fault: cap.release() follows the try block instead of sitting in a
\* finally block, so an exception out of _sample_frames skips it
ReleaseOnSuccessOnly ==
    /\ pc = "finally"
    /\ IF pending # "none"
       THEN Raise(pending, "sampling failed") /\ UNCHANGED <<cap, events>>
       ELSE /\ cap' = "released"
            /\ events' = Append(events, "release")
            /\ pc' = "check"
            /\ error' = error
    /\ pending' = "none"
    /\ UNCHANGED <<file, clip_id, frames, idx, frame_indices, pos, locals,
                   result, attempts, status_code>>
    /\ AnOnly

\* a fault: cap.release() is forgotten
ReleaseForgotten ==
    /\ pc = "finally"
    /\ IF pending # "none"
       THEN Raise(pending, "sampling failed")
       ELSE pc' = "check" /\ error' = error
    /\ pending' = "none"
    /\ UNCHANGED <<file, clip_id, cap, frames, idx, frame_indices, pos, locals,
                   result, events, attempts, status_code>>
    /\ AnOnly

\* lines 165-168: the finally block, then the exception in flight goes on
Release ==
    /\ pc = "finally"
    /\ cap' = "released"
    /\ events' = Append(events, "release")
    /\ IF pending # "none"
       THEN Raise(pending, "sampling failed")
       ELSE pc' = "check" /\ error' = error
    /\ pending' = "none"
    /\ UNCHANGED <<file, clip_id, frames, idx, frame_indices, pos, locals,
                   result, attempts, status_code>>
    /\ AnOnly

\* a fault: an empty batch is answered with a record of default values
CheckFramesDefaults ==
    /\ pc = "check"
    /\ IF frames = <<>>
       THEN /\ pc' = "returned"
            /\ result' = [clip_id |-> clip_id, brightness |-> 0, contrast |-> 0,
                          dominant_colors |-> <<>>,
                          color_temperature |-> TEMP_NEUTRAL_K]
       ELSE pc' = "gray" /\ result' = result
    /\ UNCHANGED <<file, clip_id, cap, frames, idx, frame_indices, pos, pending,
                   locals, error, events, attempts, status_code>>
    /\ AnOnly

\* lines 170-171
CheckFrames ==
    /\ pc = "check"
    /\ IF frames = <<>>
       THEN Raise("ValueError", "No frames could be extracted")
       ELSE pc' = "gray" /\ error' = error
    /\ UNCHANGED <<file, clip_id, cap, frames, idx, frame_indices, pos, pending,
                   locals, result, events, attempts, status_code>>
    /\ AnOnly

StatDone(name, value, next) ==
    /\ pc = name
    /\ locals' = (name :> value) @@ locals
    /\ events' = Append(events, name)
    /\ pc' = next
    /\ UNCHANGED <<file, clip_id, cap, frames, idx, frame_indices, pos, pending,
                   result, error, attempts, status_code>>
    /\ AnOnly

\* line 175
Gray == StatDone("gray", GrayFrames(frames), "brightness")

\* line 177
Brightness == StatDone("brightness", _compute_brightness(locals["gray"]), "contrast")

\* line 178
Contrast == StatDone("contrast", _compute_contrast(locals["gray"]), "dominant_colors")

\* line 179: cv2.kmeans gives some labels and centers
DominantColors ==
    /\ pc = "dominant_colors"
    /\ \E lc \in PaletteCounts :
           \E out \in _extract_dominant_colors(lc, PaletteCenters) :
               StatDone("dominant_colors", out.hex_colors, "color_temperature")

\* line 180
ColorTemperature ==
    StatDone("color_temperature", _estimate_color_temperature(frames), "return")

\* an exception out of one of the statistics (cv2.error, MemoryError, ...)
StatRaise ==
    /\ pc \in StatPcs
    /\ events' = Append(events, pc)
    /\ Raise("cv2.error", "statistic failed")
    /\ UNCHANGED <<file, clip_id, cap, frames, idx, frame_indices, pos, pending,
                   locals, result, attempts, status_code>>
    /\ AnOnly

\* lines 182-199
Return ==
    /\ pc = "return"
    /\ result' = [clip_id |-> clip_id,
                  brightness |-> locals["brightness"],
                  contrast |-> locals["contrast"],
                  dominant_colors |-> locals["dominant_colors"],
                  color_temperature |-> locals["color_temperature"]]
    /\ pc' = "returned"
    /\ UNCHANGED <<file, clip_id, cap, frames, idx, frame_indices, pos, pending,
                   locals, error, events, attempts, status_code>>
    /\ AnOnly

\* api.py lines 70-79: the status the /analyze endpoint answers with
AnalyzeStatus(p, e) ==
    IF p = "returned" THEN 200
    ELSE IF e.type = "FileNotFoundError" THEN 400
    ELSE IF e.type = "ValueError" THEN 422
    ELSE 500

Respond ==
    /\ pc \in {"returned", "raised"}
    /\ status_code = 0
    /\ status_code' = AnalyzeStatus(pc, error)
    /\ UNCHANGED <<file, clip_id, pc, cap, frames, idx, frame_indices, pos,
                   pending, locals, result, error, events, attempts>>
    /\ AnOnly

InitAnalyze ==
    /\ file \in Files
    /\ clip_id \in {"", "clip-1"}
    /\ pc = "start"
    /\ cap = "none"
    /\ frames = <<>>
    /\ idx = 0
    /\ frame_indices = <<>>
    /\ pos = 1
    /\ pending = "none"
    /\ locals = <<>>
    /\ result = NoResult
    /\ error = NoError
    /\ events = <<>>
    /\ attempts = <<>>
    /\ status_code = 0
    /\ TempIdle /\ ColIdle /\ DurIdle /\ RateIdle

NextAnalyze ==
    \/ Enter
    \/ Open
    \/ SampleBegin
    \/ SeqStep
    \/ EvenStep
    \/ SampleRaise
    \/ Release
    \/ CheckFrames
    \/ Gray
    \/ Brightness
    \/ Contrast
    \/ DominantColors
    \/ ColorTemperature
    \/ StatRaise
    \/ Return
    \/ Respond

SpecAnalyze == InitAnalyze /\ [][NextAnalyze]_vars

(***************************************************************************)
(* Properties of analyze_clip (under SpecAnalyze).                         *)
(***************************************************************************)
Range(s) == {s[i] : i \in 1..Len(s)}
Terminal == pc \in {"returned", "raised"}
\* the handle was opened successfully at some point of the call
WasOpened == file.kind = "video" /\ "VideoCapture" \in Range(events)
\* _sample_frames has returned normally and the finally block has run
SamplingReturned ==
    /\ "release" \in Range(events)
    /\ error.msg # "sampling failed"
ResultFields ==
    {"clip_id", "brightness", "contrast", "dominant_colors", "color_temperature"}

\* C1: once the handle has been opened, the call never ends (returns or
\* raises, whatever the exit path) without having released it, exactly once;
\* the handle is open only while _sample_frames runs.
C1_HandleReleasedOnEveryExit ==
    /\ (Terminal /\ WasOpened) =>
          /\ cap = "released"
          /\ Cardinality({i \in 1..Len(events) : events[i] = "release"}) = 1
    /\ cap = "open" => pc \in {"sample", "seq", "even", "finally"}

\* C1 witness: a statistic raised after a successful open, handle released
C1_Witness ==
    /\ pc = "raised"
    /\ error.msg = "statistic failed"
    /\ WasOpened
    /\ cap = "released"

\* C2 as claimed: the release event never precedes a statistic-computation
\* event of the same call.
C2_ReleaseNeverPrecedesStatistic ==
    \A i, j \in 1..Len(events) :
        (events[i] = "release" /\ events[j] \in StatPcs) => j < i

\* C2 amended: the batch is read from the handle before the release (no read
\* follows it, and the handle is open at every read), and the release comes
\* before every statistic-computation event of the call.
C2_ReleaseBetweenReadsAndStatistics ==
    /\ \A i, j \in 1..Len(events) :
          (events[i] = "read" /\ events[j] = "release") => i < j
    /\ \A j \in 1..Len(events) :
          events[j] \in StatPcs =>
              \E i \in 1..(j - 1) : events[i] = "release"
    /\ pc \in (StatPcs \cup {"return", "returned"}) => cap = "released"

\* C2 witness: a call that returned a record, so that reads, the release and
\* all five statistic events happened
C2_Witness ==
    /\ pc = "returned"
    /\ Len(frames) > 1
    /\ StatPcs \subseteq Range(events)

\* C3: a path that is no file fails with FileNotFoundError before any open
\* or decode attempt and without a handle; a file that cannot be opened fails
\* with ValueError "Failed to open video"; /analyze answers 400 and 422.
C3_NotFoundBeforeOpen ==
    /\ (file.kind = "missing" /\ pc # "start") =>
          /\ pc = "raised"
          /\ error.type = "FileNotFoundError"
          /\ events = <<>> /\ attempts = <<>>
          /\ cap = "none"
          /\ status_code \in {0, 400}
    /\ (file.kind = "unopenable" /\ Terminal) =>
          /\ pc = "raised"
          /\ error = [type |-> "ValueError", msg |-> "Failed to open video"]
          /\ events = <<"VideoCapture">> /\ attempts = <<>>
          /\ cap = "failed"
          /\ status_code \in {0, 422}

\* C3 witness: the endpoint has answered a call on a missing file
C3_Witness ==
    /\ file.kind = "missing"
    /\ pc = "raised"
    /\ status_code = 400

\* C4: a call returns a record with all five fields or raises; a call whose
\* sampling yielded no frame (either strategy) raises ValueError and returns
\* no record.
C4_AllFieldsOrRaise ==
    /\ pc = "returned" =>
          /\ DOMAIN result = ResultFields
          /\ frames # <<>>
          /\ error = NoError
          /\ Len(result.dominant_colors) = KMEANS_CLUSTERS
          /\ result.color_temperature \in TEMP_MIN_K..TEMP_MAX_K
          /\ result.brightness \in 0..10000
    /\ pc # "returned" => result = NoResult
    /\ (Terminal /\ SamplingReturned /\ frames = <<>>) =>
          /\ pc = "raised"
          /\ error = [type |-> "ValueError", msg |-> "No frames could be extracted"]

\* C4 witness: every index of the even strategy failed to decode
C4_Witness ==
    /\ pc = "raised"
    /\ error.msg = "No frames could be extracted"
    /\ file.total > 1
    /\ Len(attempts) > 1

\* the indices the even strategy selects for a frame count T
SelectedIndices(T) ==
    {k * Max(1, T \div 20) : k \in {n \in 0..19 : n * Max(1, T \div 20) < T}}

\* the indices of the frames of the batch, in order
BatchIndices == [i \in 1..Len(frames) |-> frames[i].idx]

IsDecodable(i) == Decodable(file, i)

\* C9: with a positive frame count T the sampler seeks to k*step, k = 0..19,
\* k*step < T, step = max(1, T div 20), each once and ascending; the batch
\* is the frames of the indices that decoded, in order, at most 20 of them.
C9_EvenSampling ==
    file.total > 0 =>
        /\ \A i \in 1..Len(attempts) :
              attempts[i] = (i - 1) * Max(1, file.total \div 20)
        /\ Range(attempts) \subseteq SelectedIndices(file.total)
        /\ BatchIndices = SelectSeq(attempts, IsDecodable)
        /\ Len(frames) <= 20
        /\ SamplingReturned =>
              /\ Range(attempts) = SelectedIndices(file.total)
              /\ Len(attempts) = Cardinality(SelectedIndices(file.total))

\* C9 witness: 20 indices were tried, one of them failed and was skipped
C9_Witness ==
    /\ file.total > 0
    /\ pc = "check"
    /\ Len(attempts) = 20
    /\ Len(frames) = 19
    /\ ~IsDecodable(attempts[2])

\* the length of the longest decodable prefix of 0, 30, 60, ..., capped at 20
LongestPrefix ==
    CHOOSE n \in 0..20 :
        /\ \A k \in 0..(n - 1) : IsDecodable(30 * k)
        /\ n = 20 \/ ~IsDecodable(30 * n)

\* C10: with an unknown or non-positive frame count the sampler reads 0, 30,
\* 60, ... in order, stops at 20 frames or at the first failed read (so after
\* at most 20 successful reads and one failed one), and returns the frames
\* of the longest decodable prefix of that sequence, capped at 20.
C10_SequentialSampling ==
    file.total <= 0 =>
        /\ \A i \in 1..Len(attempts) : attempts[i] = 30 * (i - 1)
        /\ Len(frames) <= 20
        /\ Len(attempts) <= Len(frames) + 1
        /\ BatchIndices = SubSeq(attempts, 1, Len(frames))
        /\ \A i \in 1..Len(frames) : IsDecodable(frames[i].idx)
        /\ Len(attempts) = Len(frames) + 1 =>
              (pc # "seq" /\ ~IsDecodable(attempts[Len(attempts)]))
        /\ SamplingReturned =>
              /\ Len(frames) = LongestPrefix
              /\ Len(frames) < 20 => Len(attempts) = Len(frames) + 1

\* C10 witness: the cap of 20 frames ended the loop
C10_Witness ==
    /\ file.total <= 0
    /\ pc = "check"
    /\ Len(frames) = 20
    /\ Len(attempts) = 20

(***************************************************************************)
(* _estimate_color_temperature on its own.                                 *)
(***************************************************************************)
\* the channel means the batches are made of
TempBlues == {0, 4, 5, 6, 10}
TempReds == {0, 5, 6}
TempFrames == {Frame(0, <<b, 0, r>>) : b \in TempBlues, r \in TempReds}
TempBatches == UNION {[1..n -> TempFrames] : n \in 0..MaxTempFrames}

InitTemp ==
    /\ t_frames \in TempBatches
    /\ t_out = [done |-> FALSE, value |-> 0]
    /\ AnIdle /\ ColIdle /\ DurIdle /\ RateIdle

EstimateTemperature ==
    /\ ~t_out.done
    /\ t_out' = [done |-> TRUE, value |-> _estimate_color_temperature(t_frames)]
    /\ UNCHANGED <<t_frames, anVars, colVars, durVars, rateVars>>

NextTemp == EstimateTemperature

SpecTemp == InitTemp /\ [][NextTemp]_vars

\* the frames of the batch with a non-zero mean red
Usable == {i \in 1..Len(t_frames) : t_frames[i].bgr[3] # 0}

RECURSIVE ProdOver(_, _)
ProdOver(f, S) ==
    IF S = {} THEN 1
    ELSE LET i == CHOOSE x \in S : TRUE IN f[i] * ProdOver(f, S \ {i})

RECURSIVE SumOver(_, _)
SumOver(f, S) ==
    IF S = {} THEN 0
    ELSE LET i == CHOOSE x \in S : TRUE IN f[i] + SumOver(f, S \ {i})

\* the mean r of blue/red over the usable frames is RatioNum / RatioDen
RedProduct == ProdOver([i \in Usable |-> t_frames[i].bgr[3]], Usable)
RatioNum ==
    SumOver([i \in Usable |-> t_frames[i].bgr[1] * (RedProduct \div t_frames[i].bgr[3])],
            Usable)
RatioDen == Cardinality(Usable) * RedProduct
\* 3000 + ((r - 0.8) / 0.4) * 5000 = 12500 r - 7000 is KelvinNum / RatioDen
KelvinNum == 12500 * RatioNum - 7000 * RatioDen

\* C5: 5500 when no frame has a non-zero mean red; otherwise the value
\* 3000 + ((r - 0.8) / 0.4) * 5000 clamped to [2500, 10000] and rounded to a
\* nearest integer; always an integer in [2500, 10000]; r = 0.8, 1.0, 1.2 and
\* 2.0 give 3000, 5500, 8000 and 10000.
C5_Temperature ==
    t_out.done =>
        /\ t_out.value \in 2500..10000
        /\ Usable = {} => t_out.value = 5500
        /\ Usable # {} =>
              /\ KelvinNum <= 2500 * RatioDen => t_out.value = 2500
              /\ KelvinNum >= 10000 * RatioDen => t_out.value = 10000
              /\ (2500 * RatioDen < KelvinNum /\ KelvinNum < 10000 * RatioDen) =>
                    2 * Abs(t_out.value * RatioDen - KelvinNum) <= RatioDen
              /\ 5 * RatioNum = 4 * RatioDen => t_out.value = 3000
              /\ RatioNum = RatioDen => t_out.value = 5500
              /\ 5 * RatioNum = 6 * RatioDen => t_out.value = 8000
              /\ RatioNum = 2 * RatioDen => t_out.value = 10000

\* C5 witness: a batch with an unusable frame and the ratios 4/5 and 5/6,
\* whose mean 49/60 gives 3208.33..., rounded to 3208
C5_Witness ==
    /\ t_out.done
    /\ Len(t_frames) = 3
    /\ Cardinality(Usable) = 2
    /\ 60 * RatioNum = 49 * RatioDen
    /\ t_out.value = 3208

(***************************************************************************)
(* _extract_dominant_colors on its own: lines 95-105 on a k-means outcome. *)
(***************************************************************************)
\* cluster centers (R, G, B, in tenths), as cv2.kmeans may return them
CenterSets ==
    {[c \in Clusters |-> <<1004 + 100 * c, 1109 - c, 2551 + c>>],
     [c \in Clusters |-> <<127, 2549, 5 * c>>]}

\* every pixel has a label, so some cluster is populated
LabelCounts == {lc \in [Clusters -> 0..MaxCount] : \E c \in Clusters : lc[c] > 0}

InitColors ==
    /\ label_counts \in LabelCounts
    /\ centers \in CenterSets
    /\ c_out = [done |-> FALSE, sorted_indices |-> <<>>, hex_colors |-> <<>>]
    /\ AnIdle /\ TempIdle /\ DurIdle /\ RateIdle

ExtractDominantColors ==
    /\ ~c_out.done
    /\ \E out \in _extract_dominant_colors(label_counts, centers) :
          c_out' = [done |-> TRUE, sorted_indices |-> out.sorted_indices,
                    hex_colors |-> out.hex_colors]
    /\ UNCHANGED <<label_counts, centers, anVars, tempVars, durVars, rateVars>>

NextColors == ExtractDominantColors

SpecColors == InitColors /\ [][NextColors]_vars

\* C6 as claimed: exactly K = 5 colours, ordered by cluster population,
\* largest first, and among clusters of equal population the smaller cluster
\* index first.
C6_RankedByPopulationThenIndex ==
    c_out.done =>
        /\ Len(c_out.hex_colors) = 5
        /\ \A i \in 1..5 :
              c_out.hex_colors[i] = HexColor(centers[c_out.sorted_indices[i - 1]])
        /\ \A i, j \in Clusters :
              i < j =>
                 LET a == c_out.sorted_indices[i]
                     b == c_out.sorted_indices[j]
                 IN  \/ label_counts[a] > label_counts[b]
                     \/ (label_counts[a] = label_counts[b] /\ a < b)

(***************************************************************************)
(* Strings and Python's parsers.  A string is a tuple of one-character     *)
(* strings.  An optional value (dict.get without the key, None) is <<>>    *)
(* when absent and <<v>> when present.                                     *)
(*                                                                         *)
(* int() and float() are modelled on strings over digits, "+", "-", ".",   *)
(* "/", ":" and letters other than those of "inf", "nan", "e" and "_":     *)
(* on these, int() accepts an optional sign followed by one or more        *)
(* digits, and float() an optional sign followed by digits with at most    *)
(* one "." and at least one digit.                                         *)
(***************************************************************************)
None == <<>>
Some(v) == <<v>>
IsNone(o) == o = <<>>

DigitChars == <<"0", "1", "2", "3", "4", "5", "6", "7", "8", "9">>
Digits == {DigitChars[i] : i \in 1..10}
DigitVal(c) == (CHOOSE i \in 1..10 : DigitChars[i] = c) - 1

RECURSIVE Pow10(_)
Pow10(k) == IF k = 0 THEN 1 ELSE 10 * Pow10(k - 1)

\* the number a string of digits denotes
RECURSIVE DigitsVal(_)
DigitsVal(s) ==
    IF s = <<>> THEN 0
    ELSE 10 * DigitsVal(SubSeq(s, 1, Len(s) - 1)) + DigitVal(s[Len(s)])

\* s.split(sep): the pieces between the separators, empty ones included
Split(s, sep) ==
    LET seps == {i \in 1..Len(s) : s[i] = sep}
        n == Cardinality(seps)
        at(k) == IF k = 0 THEN 0
                 ELSE IF k = n + 1 THEN Len(s) + 1
                 ELSE CHOOSE i \in seps : Cardinality({j \in seps : j < i}) = k - 1
    IN  [k \in 1..(n + 1) |-> SubSeq(s, at(k - 1) + 1, at(k) - 1)]

Unsigned(s) == IF s # <<>> /\ s[1] \in {"+", "-"} THEN Tail(s) ELSE s
SignOf(s) == IF s # <<>> /\ s[1] = "-" THEN -1 ELSE 1

\* int(s): ok is FALSE where Python raises ValueError
PyInt(s) ==
    LET body == Unsigned(s)
        ok == body # <<>> /\ \A i \in 1..Len(body) : body[i] \in Digits
    IN  [ok |-> ok, val |-> IF ok THEN SignOf(s) * DigitsVal(body) ELSE 0]

\* float(s), as the rational num / den: ok is FALSE where Python raises ValueError
PyFloat(s) ==
    LET body == Unsigned(s)
        dots == {i \in 1..Len(body) : body[i] = "."}
        digits == SelectSeq(body, LAMBDA c : c # ".")
        ok == /\ Cardinality(dots) <= 1
              /\ digits # <<>>
              /\ \A i \in 1..Len(digits) : digits[i] \in Digits
        decimals == IF dots = {} THEN 0 ELSE Len(body) - (CHOOSE i \in dots : TRUE)
    IN  [ok |-> ok,
         num |-> IF ok THEN SignOf(s) * DigitsVal(digits) ELSE 0,
         den |-> IF ok THEN Pow10(decimals) ELSE 1]

\* round(n / d, 3) for integers n and d # 0, in units of 10^-3
Round3(n, d) == IF d < 0 THEN PyRound(-(1000 * n), -d) ELSE PyRound(1000 * n, d)

(***************************************************************************)
(* _parse_frame_rate and its call in probe.                                *)
(***************************************************************************)
Returned(v) == [raised |-> "none", value |-> v]
Raised(e) == [raised |-> e, value |-> 0]

\* lines 162-166, the try block
ParseFrameRateTry(rate_str) ==
    LET parts == Split(rate_str, "/")
    IN  IF Len(parts) # 2 THEN Raised("ValueError")
        ELSE LET den == PyInt(parts[2])
                 num == PyInt(parts[1])
             IN  IF ~den.ok THEN Raised("ValueError")
                 ELSE IF den.val = 0 THEN Returned(0)
                 ELSE IF ~num.ok THEN Raised("ValueError")
                 ELSE Returned(Round3(num.val, den.val))

\* a fault: the except clause names ZeroDivisionError alone
_parse_frame_rate_narrow(rate_str) ==
    LET r == ParseFrameRateTry(rate_str)
    IN  IF r.raised \in {"ZeroDivisionError"} THEN Returned(0) ELSE r

\* lines 159-169
_parse_frame_rate(rate_str) ==
    LET r == ParseFrameRateTry(rate_str)
    IN  IF r.raised \in {"ValueError", "ZeroDivisionError"} THEN Returned(0) ELSE r

\* line 84: video_stream.get("r_frame_rate", "0/1")
GetFrameRate(stream) ==
    IF IsNone(stream.r_frame_rate) THEN <<"0", "/", "1">> ELSE stream.r_frame_rate[1]

RateChars == {"0", "1", "3", "/", "-", "."}
RateStrings ==
    UNION {[1..n -> RateChars] : n \in 0..MaxRateLen}
        \cup {<<"3", "0", "0", "0", "0", "/", "1", "0", "0", "1">>,
              <<"3", "0", "/", "1", "/", "1">>}

InitRate ==
    /\ r_stream \in [r_frame_rate : {None} \cup {Some(t) : t \in RateStrings}]
    /\ r_out = [done |-> FALSE, raised |-> "none", value |-> 0]
    /\ AnIdle /\ TempIdle /\ ColIdle /\ DurIdle

ParseFrameRate ==
    /\ ~r_out.done
    /\ LET r == _parse_frame_rate(GetFrameRate(r_stream))
       IN  r_out' = [done |-> TRUE, raised |-> r.raised, value |-> r.value]
    /\ UNCHANGED <<r_stream, anVars, tempVars, colVars, durVars>>

NextRate == ParseFrameRate

SpecRate == InitRate /\ [][NextRate]_vars

\* an integer literal: an optional sign, then digits only, at least one
IsIntLiteral(s) ==
    /\ Len(s) >= 1
    /\ \A i \in 1..Len(s) : s[i] \in Digits \/ (i = 1 /\ s[i] \in {"+", "-"})
    /\ \E i \in 1..Len(s) : s[i] \in Digits

\* the string _parse_frame_rate is called on
RateText == GetFrameRate(r_stream)
\* the places k where RateText is N "/" D with integer literals N and D
RateSlashes ==
    {k \in 1..Len(RateText) :
        /\ RateText[k] = "/"
        /\ IsIntLiteral(SubSeq(RateText, 1, k - 1))
        /\ IsIntLiteral(SubSeq(RateText, k + 1, Len(RateText)))}
RateN == PyInt(SubSeq(RateText, 1, (CHOOSE k \in RateSlashes : TRUE) - 1)).val
RateD == PyInt(SubSeq(RateText, (CHOOSE k \in RateSlashes : TRUE) + 1, Len(RateText))).val

\* C8: for a well-formed "N/D" with D # 0 the result is N/D rounded to 3
\* decimals; for every other string of the report (zero denominator, missing
\* or extra "/", non-integer parts) it is 0.0; no input makes it raise.
C8_FrameRate ==
    r_out.done =>
        /\ r_out.raised = "none"
        /\ IF RateSlashes # {} /\ RateD # 0
           THEN 2 * Abs(r_out.value * RateD - 1000 * RateN) <= Abs(RateD)
           ELSE r_out.value = 0
        /\ RateText = <<"3", "0", "/", "1">> => r_out.value = 30000
        /\ RateText = <<"0", "/", "0">> => r_out.value = 0
        /\ RateText = <<"3", "0", "0", "0", "0", "/", "1", "0", "0", "1">> =>
              r_out.value = 29970

\* C8 witness: "30000/1001" was parsed to 29.97
C8_Witness ==
    /\ r_out.done
    /\ RateText = <<"3", "0", "0", "0", "0", "/", "1", "0", "0", "1">>
    /\ r_out.value = 29970
    /\ r_out.raised = "none"

(***************************************************************************)
(* _extract_duration and _hms_to_seconds.  Durations are in units of 10^-3 *)
(* seconds.                                                                *)
(***************************************************************************)
\* round(float(raw), 3) of lines 183-187; float(None) raises TypeError
RoundFloat(raw) ==
    IF IsNone(raw) THEN Raised("TypeError")
    ELSE LET f == PyFloat(raw[1])
         IN  IF ~f.ok THEN Raised("ValueError")
             ELSE Returned(PyRound(1000 * f.num, f.den))

\* lines 192-197, the split and the try block
HmsToSecondsTry(hms) ==
    LET parts == Split(hms, ":")
    IN  IF Len(parts) < 3 THEN
            \* parts[0] always exists; it is converted before parts[1] is read
            IF ~PyFloat(parts[1]).ok THEN Raised("ValueError")
            ELSE IF Len(parts) < 2 THEN Raised("IndexError")
            ELSE IF ~PyFloat(parts[2]).ok THEN Raised("ValueError")
            ELSE Raised("IndexError")
        ELSE LET hours == PyFloat(parts[1])
                 minutes == PyFloat(parts[2])
                 seconds == PyFloat(parts[3])
             IN  IF ~(hours.ok /\ minutes.ok /\ seconds.ok) THEN Raised("ValueError")
                 ELSE LET total ==
                              RatAdd(RatAdd(RatMul(<<hours.num, hours.den>>, <<3600, 1>>),
                                            RatMul(<<minutes.num, minutes.den>>, <<60, 1>>)),
                                     <<seconds.num, seconds.den>>)
                      IN  Returned(PyRound(1000 * total[1], total[2]))

\* lines 190-199
_hms_to_seconds(hms) ==
    LET r == HmsToSecondsTry(hms)
    IN  IF r.raised \in {"IndexError", "ValueError"} THEN Returned(0) ELSE r

\* lines 172-187.  stream.tags is the DURATION entry of the stream's tags
\* (absent when the stream has no tags or the tags no DURATION).
_extract_duration(stream, format) ==
    LET raw1 == stream.duration
        raw2 == IF IsNone(raw1) THEN format.duration ELSE raw1
        raw3 == IF IsNone(raw2) THEN stream.tags ELSE raw2
        viaTag == IsNone(raw2)
    IN  IF viaTag /\ ~IsNone(raw3) /\ raw3[1] # <<>>
               /\ \E i \in 1..Len(raw3[1]) : raw3[1][i] = ":"
        THEN _hms_to_seconds(raw3[1])
        ELSE LET r == RoundFloat(raw3)
             IN  IF r.raised \in {"TypeError", "ValueError"} THEN Returned(0) ELSE r

\* the texts the duration fields are drawn from
DurationTexts ==
    {<<"1", "2", ".", "3", "4", "5">>,
     <<"1", "0", ".", "0">>,
     <<"0", "0", ":", "0", "1", ":", "0", "5", ".", "5", "0", "0">>,
     <<"6", "5", ".", "5">>,
     <<"N", "/", "A">>,
     <<>>,
     <<"1", ":", "2">>,
     <<"x", ":", "0", ":", "1">>,
     <<"0", ":", "0", ":", "1", ":", "9">>}

OptionalTexts == {None} \cup {Some(t) : t \in DurationTexts}

InitDuration ==
    /\ video_stream \in [duration : OptionalTexts, tags : OptionalTexts]
    /\ fmt \in [duration : OptionalTexts]
    /\ d_out = [done |-> FALSE, raised |-> "none", value |-> 0]
    /\ AnIdle /\ TempIdle /\ ColIdle /\ RateIdle

ExtractDuration ==
    /\ ~d_out.done
    /\ LET r == _extract_duration(video_stream, fmt)
       IN  d_out' = [done |-> TRUE, raised |-> r.raised, value |-> r.value]
    /\ UNCHANGED <<video_stream, fmt, anVars, tempVars, colVars, rateVars>>

NextDuration == ExtractDuration

SpecDuration == InitDuration /\ [][NextDuration]_vars

\* a decimal number: an optional sign, digits with at most one ".", a digit
IsDecimal(s) ==
    /\ \A i \in 1..Len(s) :
          s[i] \in Digits \cup {"."} \/ (i = 1 /\ s[i] \in {"+", "-"})
    /\ Cardinality({i \in 1..Len(s) : s[i] = "."}) <= 1
    /\ \E i \in 1..Len(s) : s[i] \in Digits

\* a field that is present and is a decimal number of seconds
ParseableSeconds(o) == ~IsNone(o) /\ IsDecimal(o[1])
\* a tag that is present and is H:M:S (or a plain decimal number of seconds)
ParseableTag(o) ==
    /\ ~IsNone(o)
    /\ \/ IsDecimal(o[1])
       \/ /\ Len(Split(o[1], ":")) >= 3
          /\ \A k \in 1..3 : IsDecimal(Split(o[1], ":")[k])
SecondsOf(o) == RoundFloat(o).value
TagSecondsOf(o) ==
    IF IsDecimal(o[1]) THEN RoundFloat(o).value ELSE HmsToSecondsTry(o[1]).value

\* C7 as claimed: the result is the first of stream duration, container
\* duration and DURATION tag that is present and parseable, 0.0 when none
\* is, and the function never raises.
C7_FirstPresentAndParseable ==
    d_out.done =>
        /\ d_out.raised = "none"
        /\ d_out.value =
              IF ParseableSeconds(video_stream.duration)
              THEN SecondsOf(video_stream.duration)
              ELSE IF ParseableSeconds(fmt.duration)
              THEN SecondsOf(fmt.duration)
              ELSE IF ParseableTag(video_stream.tags)
              THEN TagSecondsOf(video_stream.tags)
              ELSE 0

\* the behaviour of lines 174-187: the first field that is present decides alone
ExtractDurationFirstPresentDecides ==
    d_out.done =>
        /\ d_out.raised = "none"
        /\ d_out.value =
              IF ~IsNone(video_stream.duration)
              THEN (IF ParseableSeconds(video_stream.duration)
                    THEN SecondsOf(video_stream.duration) ELSE 0)
              ELSE IF ~IsNone(fmt.duration)
              THEN (IF ParseableSeconds(fmt.duration)
                    THEN SecondsOf(fmt.duration) ELSE 0)
              ELSE IF ParseableTag(video_stream.tags)
              THEN TagSecondsOf(video_stream.tags)
              ELSE 0
        /\ (video_stream.duration = Some(<<"1", "2", ".", "3", "4", "5">>)) =>
              d_out.value = 12345
        /\ (IsNone(video_stream.duration) /\ fmt.duration = Some(<<"1", "0", ".", "0">>)) =>
              d_out.value = 10000
        /\ (IsNone(video_stream.duration) /\ IsNone(fmt.duration)
              /\ video_stream.tags =
                    Some(<<"0", "0", ":", "0", "1", ":", "0", "5", ".", "5", "0", "0">>)) =>
              d_out.value = 65500
        /\ (IsNone(video_stream.duration) /\ IsNone(fmt.duration)
              /\ IsNone(video_stream.tags)) => d_out.value = 0

====
